---- MODULE Spec2Model ----
(***************************************************************************)
(* KlineTimestamp: a frozen value type that aligns a raw epoch-millisecond *)
(* timestamp to the open/close boundaries of its candle ("kline") for one  *)
(* of 14 fixed intervals, with navigation (next/prev), timedelta           *)
(* arithmetic, comparison on the candle open, and timezone replacement.    *)
(*                                                                         *)
(* The model follows src/kline_timestamp/kline_timestamp.py (the packaged, *)
(* frozen-dataclass variant).  Python objects live in `heap`; an operation *)
(* that returns a new KlineTimestamp appends it to the heap, so that a     *)
(* receiver and its result can be told apart.                              *)
(***************************************************************************)
EXTENDS Integers, Sequences, FiniteSets, TLC

VARIABLES heap, made, ret

vars == <<heap, made, ret>>

(***************************************************************************)
(* Bounds of the model.                                                    *)
(***************************************************************************)
\* Largest number of KlineTimestamp objects alive in one behaviour.
MaxHeap == 3
\* Raw timestamps stay within [-MaxAbsMs, MaxAbsMs]: Python integers are
\* unbounded, the integers of the model checker are 32 bits wide.
MaxAbsMs == 1500000000

(***************************************************************************)
(* Binary floating point (IEEE-754 binary64), as far as                    *)
(* int(other.total_seconds() * 1000) needs it.  A significand is a         *)
(* sequence of bits, most significant first, without leading zeros.        *)
(***************************************************************************)
\* Bits of an IEEE-754 binary64 significand.
MantBits == 53

RECURSIVE NatToBits(_)
NatToBits(n) ==
    IF n = 0 THEN <<>> ELSE NatToBits(n \div 2) \o <<n % 2>>

RECURSIVE BitsToNat(_)
BitsToNat(bits) ==
    IF bits = <<>> THEN 0
    ELSE 2 * BitsToNat(SubSeq(bits, 1, Len(bits) - 1)) + bits[Len(bits)]

\* One pass of a multiply-and-add over a bit sequence, least significant bit
\* first; `st` is the state of the loop: the bits still to do, the carry and
\* the bits already produced.
RECURSIVE MulAddLoop(_, _)
MulAddLoop(st, c) ==
    IF st.bits = <<>> THEN NatToBits(st.carry) \o st.out
    ELSE LET n == Len(st.bits)
             v == st.bits[n] * c + st.carry
         IN  MulAddLoop([bits  |-> SubSeq(st.bits, 1, n - 1),
                         carry |-> v \div 2,
                         out   |-> <<v % 2>> \o st.out], c)

\* bits * c + carry, for a small multiplier c, as a bit sequence.
MulAddBits(bits, c, carry) ==
    MulAddLoop([bits |-> bits, carry |-> carry, out |-> <<>>], c)

\* A float: sign * (man as a number) * 2^exp; zero has the empty significand.
FloatZero == [sign |-> 1, man |-> <<>>, exp |-> 0]

\* Round-to-nearest, ties-to-even, of the integer `bits` * 2^exp to MantBits
\* significant bits.
RoundNearestEven(sign, bits, exp) ==
    IF Len(bits) <= MantBits THEN [sign |-> sign, man |-> bits, exp |-> exp]
    ELSE LET kept == SubSeq(bits, 1, MantBits)
             rest == SubSeq(bits, MantBits + 1, Len(bits))
             more == \E i \in 2..Len(rest) : rest[i] = 1
             up   == rest[1] = 1 /\ (more \/ kept[MantBits] = 1)
             inc  == IF up THEN MulAddBits(kept, 1, 1) ELSE kept
             e    == exp + Len(rest)
         IN  IF Len(inc) > MantBits
             THEN [sign |-> sign, man |-> SubSeq(inc, 1, MantBits), exp |-> e + 1]
             ELSE [sign |-> sign, man |-> inc, exp |-> e]

\* Long division by den, one bit at a time, until the quotient has MantBits
\* bits; zeros are appended to the numerator as needed (`shift` counts
\* them).  `st` is the state of the loop: the numerator bits still to do,
\* the remainder, the quotient so far and the shift.
RECURSIVE LongDiv(_, _)
LongDiv(st, den) ==
    IF Len(st.quo) = MantBits /\ st.num = <<>> THEN st
    ELSE LET bit  == IF st.num = <<>> THEN 0 ELSE Head(st.num)
             r2   == 2 * st.rem + bit
             qbit == IF r2 >= den THEN 1 ELSE 0
         IN  LongDiv([num   |-> IF st.num = <<>> THEN <<>> ELSE Tail(st.num),
                      rem   |-> r2 - qbit * den,
                      quo   |-> IF st.quo = <<>> /\ qbit = 0 THEN <<>>
                                ELSE Append(st.quo, qbit),
                      shift |-> IF st.num = <<>> THEN st.shift + 1 ELSE st.shift],
                     den)

\* int / int -> float: the correctly rounded quotient of two positive
\* integers (the numerator as bits).
TrueDivide(sign, num, den) ==
    IF num = <<>> THEN FloatZero
    ELSE LET d    == LongDiv([num |-> num, rem |-> 0, quo |-> <<>>, shift |-> 0], den)
             odd  == d.quo[MantBits] = 1
             up   == 2 * d.rem > den \/ (2 * d.rem = den /\ odd)
             inc  == IF up THEN MulAddBits(d.quo, 1, 1) ELSE d.quo
         IN  IF Len(inc) > MantBits
             THEN [sign |-> sign, man |-> SubSeq(inc, 1, MantBits), exp |-> 1 - d.shift]
             ELSE [sign |-> sign, man |-> inc, exp |-> -d.shift]

\* float * int for a small positive integer k: the correctly rounded product.
FloatMul(x, k) ==
    IF x.man = <<>> THEN FloatZero
    ELSE RoundNearestEven(x.sign, MulAddBits(x.man, k, 0), x.exp)

\* int(float): truncation toward zero.
FloatToInt(x) ==
    IF x.man = <<>> \/ Len(x.man) + x.exp <= 0 THEN 0
    ELSE x.sign * BitsToNat(SubSeq(x.man, 1, Len(x.man) + x.exp))

(***************************************************************************)
(* datetime.timedelta: days, seconds and microseconds, normalised so that  *)
(* 0 <= seconds < 86400 and 0 <= microseconds < 1000000.                   *)
(***************************************************************************)
UsPerSecond == 1000000
SecondsPerDay == 86400
MsPerSecond == 1000

\* timedelta(days=, seconds=, microseconds=, milliseconds=) of integers.
timedelta(days, seconds, microseconds, milliseconds) ==
    LET us1 == microseconds + (milliseconds % MsPerSecond) * (UsPerSecond \div MsPerSecond)
        s1  == seconds + (milliseconds \div MsPerSecond) + (us1 \div UsPerSecond)
    IN  [days         |-> days + (s1 \div SecondsPerDay),
         seconds      |-> s1 % SecondsPerDay,
         microseconds |-> us1 % UsPerSecond]

\* timedelta.total_seconds(): the float (total microseconds) / 10**6.
total_seconds(td) ==
    LET s == td.days * SecondsPerDay + td.seconds
    IN  IF s >= 0
        THEN TrueDivide(1, MulAddBits(NatToBits(s), UsPerSecond, td.microseconds),
                        UsPerSecond)
        ELSE IF td.microseconds = 0
        THEN TrueDivide(-1, MulAddBits(NatToBits(-s), UsPerSecond, 0), UsPerSecond)
        ELSE TrueDivide(-1, MulAddBits(NatToBits(-s - 1), UsPerSecond,
                                       UsPerSecond - td.microseconds),
                        UsPerSecond)

\* int(other.total_seconds() * 1000)
duration_ms(other) ==
    FloatToInt(FloatMul(total_seconds(other), MsPerSecond))

(***************************************************************************)
(* Python values the class handles.  A str is a sequence of characters; a  *)
(* tzinfo argument is a str, a pytz timezone object or something else.     *)
(***************************************************************************)
Str(name) == [kind |-> "str", name |-> name]
Tz(zone) == [kind |-> "tz", zone |-> zone]
NotATz == [kind |-> "other"]

\* str.upper() on the characters interval codes are written with: the other
\* casing a caller can write a code in.
UpperChar(c) ==
    CASE c = "m" -> "M"
      [] c = "h" -> "H"
      [] c = "d" -> "D"
      [] c = "w" -> "W"
      [] OTHER   -> c

str_upper(s) == [i \in DOMAIN s |-> UpperChar(s[i])]

\* The older module's handling of the interval: no change of case.
str_lower_none(s) == s

\* str.lower() on the characters interval codes are written with.
LowerChar(c) ==
    CASE c = "M" -> "m"
      [] c = "H" -> "h"
      [] c = "D" -> "d"
      [] c = "W" -> "w"
      [] OTHER   -> c

str_lower(s) == [i \in DOMAIN s |-> LowerChar(s[i])]

\* The zones pytz knows, as far as the model uses them.
all_timezones == {"UTC", "Europe/Madrid"}

\* A bug pytz.timezone could have: a timezone object for any name at all.
pytz_timezone_lenient(name) == [exc |-> "", tz |-> Tz(name)]

\* pytz.timezone(name): the timezone object, or UnknownTimeZoneError.
pytz_timezone(name) ==
    IF name \in all_timezones
    THEN [exc |-> "", tz |-> Tz(name)]
    ELSE [exc |-> "UnknownTimeZoneError", tz |-> NotATz]

\* The class field tick_milliseconds: interval code -> candle width in ms.
tick_milliseconds ==
       (<<"1", "m">>      :> 60 * 1000)
    @@ (<<"3", "m">>      :> 3 * 60 * 1000)
    @@ (<<"5", "m">>      :> 5 * 60 * 1000)
    @@ (<<"1", "5", "m">> :> 15 * 60 * 1000)
    @@ (<<"3", "0", "m">> :> 30 * 60 * 1000)
    @@ (<<"1", "h">>      :> 60 * 60 * 1000)
    @@ (<<"2", "h">>      :> 2 * 60 * 60 * 1000)
    @@ (<<"4", "h">>      :> 4 * 60 * 60 * 1000)
    @@ (<<"6", "h">>      :> 6 * 60 * 60 * 1000)
    @@ (<<"8", "h">>      :> 8 * 60 * 60 * 1000)
    @@ (<<"1", "2", "h">> :> 12 * 60 * 60 * 1000)
    @@ (<<"1", "d">>      :> 24 * 60 * 60 * 1000)
    @@ (<<"3", "d">>      :> 3 * 24 * 60 * 60 * 1000)
    @@ (<<"1", "w">>      :> 7 * 24 * 60 * 60 * 1000)

(***************************************************************************)
(* Construction.                                                           *)
(***************************************************************************)
\* A bug open_ts could have: division that truncates toward zero.
open_ts_truncating(timestamp_ms, tick_ms) ==
    IF timestamp_ms >= 0 THEN (timestamp_ms \div tick_ms) * tick_ms
    ELSE -(((-timestamp_ms) \div tick_ms) * tick_ms)

\* (self.timestamp_ms // tick_ms) * tick_ms; Python's // is floor division,
\* as is \div.
open_ts(timestamp_ms, tick_ms) == (timestamp_ms \div tick_ms) * tick_ms

\* A bug close_ts could have: the close taken as the next candle's open.
close_ts_exclusive(open, tick_ms) == open + tick_ms

\* open_ts + tick_ms - 1
close_ts(open, tick_ms) == open + tick_ms - 1

\* The tzinfo argument resolved to a timezone object, or the exception.
resolve_tzinfo(tzinfo) ==
    IF tzinfo.kind = "str" THEN pytz_timezone(tzinfo.name)
    ELSE IF tzinfo.kind = "tz" THEN [exc |-> "", tz |-> tzinfo]
    ELSE [exc |-> "TypeError", tz |-> NotATz]

\* What a failed construction leaves: no object.
NoObject == <<>>

\* KlineTimestamp(timestamp_ms, interval, tzinfo): the dataclass __init__
\* stores the three arguments and calls __post_init__.  The result is the
\* new object, or the exception raised (and then no object).
__post_init__(timestamp_ms, interval, tzinfo) ==
    LET lowered == str_lower(interval)
    IN  IF lowered \notin DOMAIN tick_milliseconds
        THEN [exc |-> "ValueError", obj |-> NoObject]
        ELSE LET tick_ms == tick_milliseconds[lowered]
                 open    == open_ts(timestamp_ms, tick_ms)
                 close   == close_ts(open, tick_ms)
                 tz      == resolve_tzinfo(tzinfo)
             IN  IF tz.exc # ""
                 THEN [exc |-> tz.exc, obj |-> NoObject]
                 ELSE [exc |-> "",
                       obj |-> [timestamp_ms |-> timestamp_ms,
                                interval     |-> lowered,
                                tzinfo       |-> tz.tz,
                                tick_ms      |-> tick_ms,
                                open         |-> open,
                                close        |-> close]]

KlineTimestamp(timestamp_ms, interval, tzinfo) ==
    __post_init__(timestamp_ms, interval, tzinfo)

(***************************************************************************)
(* The methods, as functions of the receiver (an object) and the argument  *)
(* (a Python value).  A method that returns KlineTimestamp(...) yields the *)
(* constructor's outcome: [exc, obj].                                      *)
(***************************************************************************)
Timedelta(td)   == [kind |-> "timedelta", td |-> td]
Instance(obj)   == [kind |-> "KlineTimestamp", obj |-> obj]
NotAnOperand    == [kind |-> "other"]

\* 1001 ms, one minute, minus one hour, 1500 microseconds.
Durations ==
    { timedelta(0, 0, 0, 1001),
      timedelta(0, 60, 0, 0),
      timedelta(0, -3600, 0, 0),
      timedelta(0, 0, 1500, 0) }

\* int(other.total_seconds() * 1000) for the durations above, computed once.
DurationMs == [td \in Durations |-> duration_ms(td)]

with_timezone(self, tzinfo) ==
    KlineTimestamp(self.timestamp_ms, self.interval, tzinfo)

__add__(self, other) ==
    IF other.kind # "timedelta"
    THEN [exc |-> "TypeError", obj |-> NoObject]
    ELSE LET new_timestamp_ms == self.timestamp_ms + DurationMs[other.td]
         IN  KlineTimestamp(new_timestamp_ms, self.interval, self.tzinfo)

\* A bug __sub__ could have: the duration taken off the candle's open, and
\* two objects subtracted by their opens.
sub_from_open(self, other) ==
    IF other.kind = "timedelta"
    THEN KlineTimestamp(self.open - DurationMs[other.td], self.interval, self.tzinfo)
    ELSE IF other.kind = "KlineTimestamp"
    THEN [exc |-> "", td |-> timedelta(0, 0, 0, self.open - other.obj.open)]
    ELSE [exc |-> "TypeError", obj |-> NoObject]

\* self - timedelta is a new object; self - KlineTimestamp is a timedelta.
__sub__(self, other) ==
    IF other.kind = "timedelta"
    THEN LET new_timestamp_ms == self.timestamp_ms - DurationMs[other.td]
         IN  KlineTimestamp(new_timestamp_ms, self.interval, self.tzinfo)
    ELSE IF other.kind = "KlineTimestamp"
    THEN [exc |-> "",
          td  |-> timedelta(0, 0, 0, self.timestamp_ms - other.obj.timestamp_ms)]
    ELSE [exc |-> "TypeError", obj |-> NoObject]

\* A bug next could have: stepping from the raw timestamp.
next_from_raw(self) ==
    KlineTimestamp(self.timestamp_ms + self.tick_ms, self.interval, self.tzinfo)

next(self) ==
    LET next_timestamp_ms == self.open + self.tick_ms
    IN  KlineTimestamp(next_timestamp_ms, self.interval, self.tzinfo)

\* A bug prev could have: stepping back from the close.
prev_from_close(self) ==
    KlineTimestamp(self.close - self.tick_ms, self.interval, self.tzinfo)

prev(self) ==
    LET prev_timestamp_ms == self.open - self.tick_ms
    IN  KlineTimestamp(prev_timestamp_ms, self.interval, self.tzinfo)

\* Another rule for ==: the interval and the timezone must match too.
eq_with_interval_and_tz(self, other) ==
    IF other.kind # "KlineTimestamp" THEN "NotImplemented"
    ELSE /\ self.interval = other.obj.interval
         /\ self.tzinfo = other.obj.tzinfo
         /\ self.open = other.obj.open

\* A bug __lt__ could have: comparing the raw timestamps.
lt_on_raw(self, other) ==
    IF other.kind # "KlineTimestamp" THEN "NotImplemented"
    ELSE self.timestamp_ms < other.obj.timestamp_ms

\* A bug __ge__ could have: comparing the closes of the candles.
ge_on_close(self, other) ==
    IF other.kind # "KlineTimestamp" THEN "NotImplemented"
    ELSE self.close >= other.obj.close

\* The comparisons: NotImplemented unless other is a KlineTimestamp.
__eq__(self, other) ==
    IF other.kind # "KlineTimestamp" THEN "NotImplemented"
    ELSE self.open = other.obj.open

__lt__(self, other) ==
    IF other.kind # "KlineTimestamp" THEN "NotImplemented"
    ELSE self.open < other.obj.open

__le__(self, other) ==
    IF other.kind # "KlineTimestamp" THEN "NotImplemented"
    ELSE self.open <= other.obj.open

__gt__(self, other) ==
    IF other.kind # "KlineTimestamp" THEN "NotImplemented"
    ELSE self.open > other.obj.open

__ge__(self, other) ==
    IF other.kind # "KlineTimestamp" THEN "NotImplemented"
    ELSE self.open >= other.obj.open

(***************************************************************************)
(* State.  heap[i] is the i-th KlineTimestamp object created; made[i] says *)
(* which call created it (a history variable); ret is the outcome of the   *)
(* last call: the exception raised, or the value returned (the heap index  *)
(* of a new object, a boolean, a timedelta).  An argument that is a        *)
(* KlineTimestamp is passed as its heap index.                             *)
(***************************************************************************)
Ref(j) == [kind |-> "KlineTimestamp", ref |-> j]

Deref(arg) == IF arg.kind = "KlineTimestamp" THEN Instance(heap[arg.ref]) ELSE arg

RawTimestamps == {-60001, 59999}

\* The raw timestamps of the pairs: two inside one candle of every interval
\* but 1m (0 and 59999), two on candle boundaries (0 and 60000, for 1m).
PairTimestamps == {-60001, 0, 59999, 60000}

IntervalInputs ==
    DOMAIN tick_milliseconds \cup {<<"1", "H">>, <<"7", "m">>}

\* Every code of the table, in lowercase and in uppercase.
CasedIntervals ==
    DOMAIN tick_milliseconds
      \cup {str_upper(code) : code \in DOMAIN tick_milliseconds}

TzInputs ==
    {Str("UTC"), Str("Europe/Madrid"), Str("Not/AZone"), NotATz}

InWindow(t) == -MaxAbsMs <= t /\ t <= MaxAbsMs

NoCall == [op |-> "", self |-> 0, arg |-> <<>>, exc |-> "", val |-> 0]

Init ==
    /\ heap = <<>>
    /\ made = <<>>
    /\ ret = NoCall

\* A call that returns KlineTimestamp(...): the new object joins the heap,
\* or the constructor's exception propagates and nothing is created.
ReturnNew(r, op, self, arg) ==
    IF r.exc = ""
    THEN /\ heap' = Append(heap, r.obj)
         /\ made' = Append(made, [op |-> op, self |-> self, arg |-> arg])
         /\ ret' = [op |-> op, self |-> self, arg |-> arg, exc |-> "",
                    val |-> Len(heap) + 1]
    ELSE /\ ret' = [op |-> op, self |-> self, arg |-> arg, exc |-> r.exc, val |-> 0]
         /\ UNCHANGED <<heap, made>>

\* A call that returns a value that is no new object.
ReturnValue(op, self, arg, val) ==
    /\ ret' = [op |-> op, self |-> self, arg |-> arg, exc |-> "", val |-> val]
    /\ UNCHANGED <<heap, made>>

\* An uncaught exception ends the program; at most MaxHeap objects are made.
Running == ret.exc = ""
Room == Len(heap) < MaxHeap

\* client code: KlineTimestamp(timestamp_ms=..., interval=..., tzinfo=...)
Construct(timestamp_ms, interval, tzinfo) ==
    /\ Running /\ Room
    /\ ReturnNew(KlineTimestamp(timestamp_ms, interval, tzinfo), "new", 0,
                 [timestamp_ms |-> timestamp_ms, interval |-> interval,
                  tzinfo |-> tzinfo])

\* Another design of the timezone change: the receiver is updated in place
\* and nothing is returned.
CallUpdateTimezone(i, tzinfo) ==
    LET tz == resolve_tzinfo(tzinfo)
    IN  /\ Running /\ Room
        /\ tz.exc = ""
        /\ heap' = [heap EXCEPT ![i].tzinfo = tz.tz]
        /\ ret' = [op |-> "update_timezone", self |-> i, arg |-> tzinfo,
                   exc |-> "", val |-> 0]
        /\ UNCHANGED made

\* client code: heap[i].with_timezone(tzinfo)
CallWithTimezone(i, tzinfo) ==
    /\ Running /\ Room
    /\ ReturnNew(with_timezone(heap[i], tzinfo), "with_timezone", i, tzinfo)

\* client code: heap[i] + other
CallAdd(i, other) ==
    /\ Running /\ Room
    /\ other.kind = "timedelta" =>
           InWindow(heap[i].timestamp_ms + DurationMs[other.td])
    /\ ReturnNew(__add__(heap[i], other), "__add__", i, other)

\* client code: heap[i] - other, other a timedelta (or no operand at all)
CallSub(i, other) ==
    /\ Running /\ Room
    /\ other.kind # "KlineTimestamp"
    /\ other.kind = "timedelta" =>
           InWindow(heap[i].timestamp_ms - DurationMs[other.td])
    /\ ReturnNew(__sub__(heap[i], other), "__sub__", i, other)

\* client code: heap[i].next()
CallNext(i) ==
    /\ Running /\ Room
    /\ InWindow(heap[i].open) /\ InWindow(heap[i].open + heap[i].tick_ms)
    /\ ReturnNew(next(heap[i]), "next", i, <<>>)

\* client code: heap[i].prev()
CallPrev(i) ==
    /\ Running /\ Room
    /\ InWindow(heap[i].open) /\ InWindow(heap[i].open - heap[i].tick_ms)
    /\ ReturnNew(prev(heap[i]), "prev", i, <<>>)

\* client code: heap[i] - heap[j]
CallDiff(i, other) ==
    /\ ret = NoCall
    /\ other.kind = "KlineTimestamp"
    /\ ReturnValue("__sub__", i, other, __sub__(heap[i], Deref(other)).td)

\* client code: heap[i] == other, <, <=, >, >=
CallEq(i, other) ==
    /\ ret = NoCall
    /\ ReturnValue("__eq__", i, other, __eq__(heap[i], Deref(other)))

CallLt(i, other) ==
    /\ ret = NoCall
    /\ ReturnValue("__lt__", i, other, __lt__(heap[i], Deref(other)))

CallLe(i, other) ==
    /\ ret = NoCall
    /\ ReturnValue("__le__", i, other, __le__(heap[i], Deref(other)))

CallGt(i, other) ==
    /\ ret = NoCall
    /\ ReturnValue("__gt__", i, other, __gt__(heap[i], Deref(other)))

CallGe(i, other) ==
    /\ ret = NoCall
    /\ ReturnValue("__ge__", i, other, __ge__(heap[i], Deref(other)))

(***************************************************************************)
(* Spec: one object is constructed and new objects are derived from the    *)
(* objects at hand by next, prev, + timedelta, - timedelta, with_timezone, *)
(* until MaxHeap objects exist.                                            *)
(***************************************************************************)
Operands == {Timedelta(td) : td \in Durations} \cup {NotAnOperand}

Next ==
    \/ \E t \in RawTimestamps, iv \in IntervalInputs, tz \in TzInputs :
          heap = <<>> /\ Construct(t, iv, tz)
    \/ \E i \in DOMAIN heap, tz \in TzInputs : CallWithTimezone(i, tz)
    \/ \E i \in DOMAIN heap, other \in Operands : CallAdd(i, other)
    \/ \E i \in DOMAIN heap, other \in Operands : CallSub(i, other)
    \/ \E i \in DOMAIN heap : CallNext(i)
    \/ \E i \in DOMAIN heap : CallPrev(i)

Spec == Init /\ [][Next]_vars

(***************************************************************************)
(* PairSpec: two objects a = heap[1] and b = heap[2], constructed          *)
(* independently from the inputs; one comparison or subtraction is applied *)
(* to them (or to one of them and itself, or and a foreign operand).       *)
(***************************************************************************)
Constructed ==
    { KlineTimestamp(x[1], x[2], x[3]).obj :
        x \in { y \in PairTimestamps \X IntervalInputs \X TzInputs :
                  KlineTimestamp(y[1], y[2], y[3]).exc = "" } }

PairInit ==
    /\ heap \in {<<a, b>> : a \in Constructed, b \in Constructed}
    /\ made = << [op |-> "new", self |-> 0, arg |-> <<>>],
                 [op |-> "new", self |-> 0, arg |-> <<>>] >>
    /\ ret = NoCall

PairOperands == {Ref(j) : j \in DOMAIN heap} \cup {NotAnOperand}

PairNext ==
    \/ \E i \in DOMAIN heap, other \in PairOperands : CallDiff(i, other)
    \/ \E i \in DOMAIN heap, other \in PairOperands : CallEq(i, other)
    \/ \E i \in DOMAIN heap, other \in PairOperands : CallLt(i, other)
    \/ \E i \in DOMAIN heap, other \in PairOperands : CallLe(i, other)
    \/ \E i \in DOMAIN heap, other \in PairOperands : CallGt(i, other)
    \/ \E i \in DOMAIN heap, other \in PairOperands : CallGe(i, other)

PairSpec == PairInit /\ [][PairNext]_vars

(***************************************************************************)
(* CaseSpec: one object is constructed from an interval code written in    *)
(* either case, and objects are derived from it as in Spec, with one       *)
(* duration and the timezones that resolve.                                *)
(***************************************************************************)
CaseTzInputs == {Str("UTC"), Str("Europe/Madrid")}

CaseOperands == {Timedelta(timedelta(0, 60, 0, 0))}

CaseNext ==
    \/ \E t \in RawTimestamps, iv \in CasedIntervals, tz \in CaseTzInputs :
          heap = <<>> /\ Construct(t, iv, tz)
    \/ \E i \in DOMAIN heap, tz \in CaseTzInputs : CallWithTimezone(i, tz)
    \/ \E i \in DOMAIN heap, other \in CaseOperands : CallAdd(i, other)
    \/ \E i \in DOMAIN heap, other \in CaseOperands : CallSub(i, other)
    \/ \E i \in DOMAIN heap : CallNext(i)
    \/ \E i \in DOMAIN heap : CallPrev(i)

CaseSpec == Init /\ [][CaseNext]_vars

(***************************************************************************)
(* Properties.                                                             *)
(***************************************************************************)
\* The interval table of the specification, in milliseconds.
IntervalMs ==
       (<<"1", "m">> :> 60000)          @@ (<<"3", "m">> :> 180000)
    @@ (<<"5", "m">> :> 300000)         @@ (<<"1", "5", "m">> :> 900000)
    @@ (<<"3", "0", "m">> :> 1800000)   @@ (<<"1", "h">> :> 3600000)
    @@ (<<"2", "h">> :> 7200000)        @@ (<<"4", "h">> :> 14400000)
    @@ (<<"6", "h">> :> 21600000)       @@ (<<"8", "h">> :> 28800000)
    @@ (<<"1", "2", "h">> :> 43200000)  @@ (<<"1", "d">> :> 86400000)
    @@ (<<"3", "d">> :> 259200000)      @@ (<<"1", "w">> :> 604800000)

\* The object was built by the constructor called by the client.
IsNew(k) == made[k].op = "new"

C2_RawInsideCandle ==
    \A k \in DOMAIN heap :
        /\ heap[k].open <= heap[k].timestamp_ms
        /\ heap[k].timestamp_ms <= heap[k].close

\* C2 happens: an object derived in two steps from a constructed one, with
\* a negative raw timestamp that is not its candle's open.
C2_Witness ==
    /\ Len(heap) = 3
    /\ ~IsNew(2) /\ made[3].self = 2
    /\ heap[3].timestamp_ms < 0
    /\ heap[3].open < heap[3].timestamp_ms

\* C3: next() returns a new object with raw timestamp open + tick_ms, whose
\* open is open + tick_ms; prev() one with raw timestamp open - tick_ms,
\* whose open is open - tick_ms (negative or not); both keep the interval
\* and the timezone.
C3_NextPrev ==
    \A k \in DOMAIN heap :
        LET a == heap[made[k].self]
        IN  /\ made[k].op = "next" =>
                /\ made[k].self < k
                /\ heap[k].timestamp_ms = a.open + a.tick_ms
                /\ heap[k].open = a.open + a.tick_ms
                /\ heap[k].interval = a.interval
                /\ heap[k].tzinfo = a.tzinfo
            /\ made[k].op = "prev" =>
                /\ made[k].self < k
                /\ heap[k].timestamp_ms = a.open - a.tick_ms
                /\ heap[k].open = a.open - a.tick_ms
                /\ heap[k].interval = a.interval
                /\ heap[k].tzinfo = a.tzinfo

\* C3 happens: next() of an object whose raw timestamp is inside its
\* candle, and prev() of it with a negative result.
C3_Witness ==
    /\ Len(heap) = 3
    /\ heap[1].timestamp_ms > heap[1].open
    /\ made[2].op = "next" /\ made[2].self = 1
    /\ made[3].op = "prev" /\ made[3].self = 1
    /\ heap[3].open < 0

\* C4: a.next().prev() has the open and the close of a, whatever a's raw
\* timestamp; its raw timestamp is a's open.
C4_NextThenPrev ==
    \A k \in DOMAIN heap :
        (made[k].op = "prev" /\ made[made[k].self].op = "next") =>
            LET a == heap[made[made[k].self].self]
            IN  /\ heap[k].open = a.open
                /\ heap[k].close = a.close
                /\ heap[k].timestamp_ms = a.open

\* C4 happens: a.next().prev() for an a whose raw timestamp is not its open,
\* so that the round trip does not return the raw timestamp.
C4_Witness ==
    \E k \in DOMAIN heap :
        /\ made[k].op = "prev" /\ made[made[k].self].op = "next"
        /\ heap[made[made[k].self].self].timestamp_ms # heap[k].timestamp_ms

\* The milliseconds of a timedelta that is a whole number of milliseconds.
WholeMs(td) == td.microseconds % 1000 = 0
ExactMs(td) == td.days * 86400000 + td.seconds * 1000 + td.microseconds \div 1000

\* C5: for a duration d of a whole number of milliseconds, a + d is a new
\* object with raw timestamp a.timestamp_ms + d_in_ms, the interval and the
\* timezone of a, and the candle of the shifted raw timestamp.
C5_AddExact ==
    \A k \in DOMAIN heap :
        (made[k].op = "__add__" /\ WholeMs(made[k].arg.td)) =>
            LET a == heap[made[k].self]
                t == a.timestamp_ms + ExactMs(made[k].arg.td)
            IN  /\ heap[k].timestamp_ms = t
                /\ heap[k].interval = a.interval
                /\ heap[k].tzinfo = a.tzinfo
                /\ heap[k].open <= t /\ t <= heap[k].close
                /\ heap[k].open % heap[k].tick_ms = 0

\* C6: (a + d) - d has the raw timestamp of a, hence its open and close,
\* even when a + d lies in another candle.
C6_AddThenSub ==
    \A k \in DOMAIN heap :
        (/\ made[k].op = "__sub__"
         /\ made[made[k].self].op = "__add__"
         /\ made[made[k].self].arg = made[k].arg) =>
            LET a == heap[made[made[k].self].self]
            IN  /\ heap[k].timestamp_ms = a.timestamp_ms
                /\ heap[k].open = a.open
                /\ heap[k].close = a.close

\* C6 happens: (a + d) - d where a + d is in another candle than a.
C6_Witness ==
    \E k \in DOMAIN heap :
        /\ made[k].op = "__sub__"
        /\ made[made[k].self].op = "__add__"
        /\ made[made[k].self].arg = made[k].arg
        /\ heap[made[k].self].open # heap[made[made[k].self].self].open

\* A timedelta's fields are in their ranges.
TimedeltaIsNormal(td) ==
    /\ 0 <= td.seconds /\ td.seconds < 86400
    /\ 0 <= td.microseconds /\ td.microseconds < 1000000

\* The last call was heap[self] <op> heap[ref].
Compared(op) == ret.op = op /\ ret.arg.kind = "KlineTimestamp"
Left == heap[ret.self]
Right == heap[ret.arg.ref]

\* C7: a - b is a timedelta of exactly a.timestamp_ms - b.timestamp_ms
\* milliseconds, whatever the intervals and timezones: the difference of
\* the raw timestamps, which is the difference of the opens when both raw
\* timestamps are candle opens.
C7_DiffOfRaw ==
    Compared("__sub__") =>
        /\ TimedeltaIsNormal(ret.val)
        /\ WholeMs(ret.val)
        /\ ExactMs(ret.val) = Left.timestamp_ms - Right.timestamp_ms
        /\ (Left.timestamp_ms = Left.open /\ Right.timestamp_ms = Right.open) =>
               ExactMs(ret.val) = Left.open - Right.open

\* C7 happens: a - b is not zero for two objects with the same open (which
\* compare equal), of different intervals and timezones.
C7_Witness ==
    /\ Compared("__sub__")
    /\ Left.open = Right.open
    /\ __eq__(Left, Instance(Right)) = TRUE
    /\ Left.interval # Right.interval
    /\ Left.tzinfo # Right.tzinfo
    /\ ExactMs(ret.val) # 0

\* C7, on candle boundaries: 60000 and 0 with "1m" differ by 60,000 ms.
C7_WitnessBoundary ==
    /\ Compared("__sub__")
    /\ Left.timestamp_ms = 60000 /\ Left.open = 60000
    /\ Right.timestamp_ms = 0 /\ Right.open = 0
    /\ ExactMs(ret.val) = 60000

\* C8: a == b if and only if a.open = b.open; the raw timestamps, the
\* intervals and the timezones play no part.
C8_EqOnOpen ==
    Compared("__eq__") => (ret.val = (Left.open = Right.open))

\* C8 happens: two objects of different raw timestamps, intervals and
\* timezones are equal.
C8_Witness ==
    /\ Compared("__eq__")
    /\ ret.val = TRUE
    /\ Left.timestamp_ms # Right.timestamp_ms
    /\ Left.interval # Right.interval
    /\ Left.tzinfo # Right.tzinfo

SameContext == Left.interval = Right.interval /\ Left.tzinfo = Right.tzinfo
SameCandle == Left.open <= Right.timestamp_ms /\ Right.timestamp_ms <= Left.close

\* C9: for two objects of the same interval and timezone, a < b if and only
\* if a.open < b.open, and <=, > and >= likewise compare the opens; two
\* objects whose raw timestamps lie in the same candle are not ordered
\* strictly.
C9_OrderOnOpen ==
    /\ (Compared("__lt__") /\ SameContext) =>
          /\ ret.val = (Left.open < Right.open)
          /\ SameCandle => ret.val = FALSE
    /\ (Compared("__le__") /\ SameContext) =>
          /\ ret.val = (Left.open <= Right.open)
          /\ SameCandle => ret.val = TRUE
    /\ (Compared("__gt__") /\ SameContext) =>
          /\ ret.val = (Left.open > Right.open)
          /\ SameCandle => ret.val = FALSE
    /\ (Compared("__ge__") /\ SameContext) =>
          /\ ret.val = (Left.open >= Right.open)
          /\ SameCandle => ret.val = TRUE

\* C9 happens: a < b is asked of two objects of one interval and timezone
\* whose raw timestamps differ inside one candle, and is false.
C9_Witness ==
    /\ Compared("__lt__") /\ SameContext /\ SameCandle
    /\ Left.timestamp_ms < Right.timestamp_ms
    /\ ret.val = FALSE

\* C10, the result: with_timezone returns a new object with the raw
\* timestamp, the interval, the open and the close of the receiver, and
\* the timezone asked for.
WithTimezoneResult ==
    \A k \in DOMAIN heap :
        made[k].op = "with_timezone" =>
            LET a == heap[made[k].self]
            IN  /\ made[k].self < k
                /\ heap[k].timestamp_ms = a.timestamp_ms
                /\ heap[k].interval = a.interval
                /\ heap[k].open = a.open
                /\ heap[k].close = a.close
                /\ heap[k].tzinfo = Tz(made[k].arg.name)

\* C10, the frame: no call changes an object that exists; what a call
\* makes is a new object.
NoMutation ==
    /\ Len(heap') >= Len(heap)
    /\ \A k \in DOMAIN heap : heap'[k] = heap[k]

\* C10: changing the timezone never mutates an object: with_timezone returns
\* a new object that differs from the receiver in the timezone only, and no
\* operation (with_timezone, +, -, next, prev) modifies an existing object.
C10_Immutable == [](WithTimezoneResult) /\ [][NoMutation]_vars

\* C10 happens: with_timezone has returned an object of another timezone
\* than its receiver, which keeps its own.
C10_Witness ==
    \E k \in DOMAIN heap :
        /\ made[k].op = "with_timezone"
        /\ heap[k].tzinfo # heap[made[k].self].tzinfo
        /\ heap[k].tzinfo.zone = "Europe/Madrid"
        /\ heap[made[k].self].tzinfo.zone = "UTC"

\* The codes of the interval table in every casing: the input the
\* specification calls supported.
CodeChars == {"0", "1", "2", "3", "4", "5", "6", "7", "8", "m", "h", "d", "w",
              "M", "H", "D", "W"}

Casings(code) ==
    { s \in [DOMAIN code -> CodeChars] :
        \A i \in DOMAIN code : s[i] \in {code[i], UpperChar(code[i])} }

SupportedInput == UNION { Casings(code) : code \in DOMAIN IntervalMs }

\* The timezone argument names no zone and is no timezone object.
Unresolvable(tzinfo) ==
    ~ \/ tzinfo.kind = "tz"
      \/ tzinfo.kind = "str" /\ tzinfo.name \in all_timezones

\* InvalidTimezone is pytz's UnknownTimeZoneError for a string, TypeError for
\* a value that is neither a string nor a timezone object.
InvalidTimezone(tzinfo) ==
    IF tzinfo.kind = "str" THEN "UnknownTimeZoneError" ELSE "TypeError"

\* C11, the failure: the constructor raises ValueError (InvalidInterval) for
\* an interval outside the supported set, and otherwise the timezone error
\* for a timezone that does not resolve; with_timezone raises the same
\* timezone error; a call that raised returned nothing.
ConstructionFails ==
    /\ (ret.op = "new" /\ ret.arg.interval \notin SupportedInput) =>
           ret.exc = "ValueError"
    /\ (/\ ret.op = "new"
        /\ ret.arg.interval \in SupportedInput
        /\ Unresolvable(ret.arg.tzinfo)) =>
           ret.exc = InvalidTimezone(ret.arg.tzinfo)
    /\ (ret.op = "with_timezone" /\ Unresolvable(ret.arg)) =>
           ret.exc = InvalidTimezone(ret.arg)
    /\ ret.exc # "" => ret.val = 0

\* C11, the consequence: every object that exists has an interval of the
\* table and a timezone object of a known zone.
EveryInstanceValid ==
    \A k \in DOMAIN heap :
        /\ heap[k].interval \in DOMAIN IntervalMs
        /\ heap[k].tzinfo.kind = "tz"
        /\ heap[k].tzinfo.zone \in all_timezones

\* C11, the frame: a call that raises creates no object.
RaiseMakesNothing ==
    ret'.exc # "" => (heap' = heap /\ made' = made)

\* C11: construction fails and produces no instance when the interval is
\* not supported (e.g. "7m") or the timezone does not resolve (e.g.
\* "Not/AZone"), through the constructor and through with_timezone alike;
\* hence every instance that exists has a supported interval and a resolved
\* timezone.
C11_FailedConstruction ==
    [](ConstructionFails /\ EveryInstanceValid) /\ [][RaiseMakesNothing]_vars

\* C11 happens: with_timezone("Not/AZone") on an existing object raised and
\* left the heap with that one object.
C11_Witness ==
    /\ ret.op = "with_timezone"
    /\ ret.arg = Str("Not/AZone")
    /\ ret.exc = "UnknownTimeZoneError"
    /\ Len(heap) = 1

\* C11 happens, for the interval: KlineTimestamp(..., "7m", ...) raised
\* ValueError and no object exists.
C11_WitnessInterval ==
    /\ ret.op = "new"
    /\ ret.arg.interval = <<"7", "m">>
    /\ ret.exc = "ValueError"
    /\ heap = <<>>

\* The code of the table that an input is a casing of.
CodeOf(interval) ==
    CHOOSE code \in DOMAIN IntervalMs : interval \in Casings(code)

\* C12, the constructor: an interval given in any casing of a supported code
\* (with a timezone that resolves) is accepted; the object stores the
\* lowercase code and has the tick_ms, open and close of the object built
\* from the lowercase code.
AnyCasingAccepted ==
    /\ (/\ ret.op = "new"
        /\ ret.arg.interval \in SupportedInput
        /\ ~Unresolvable(ret.arg.tzinfo)) => ret.exc = ""
    /\ \A k \in DOMAIN heap :
          IsNew(k) =>
              LET given == made[k].arg
                  code  == CodeOf(given.interval)
                  low   == KlineTimestamp(given.timestamp_ms, code, given.tzinfo)
              IN  /\ given.interval \in SupportedInput
                  /\ heap[k].interval = code
                  /\ heap[k].tick_ms = IntervalMs[code]
                  /\ low.exc = ""
                  /\ heap[k].tick_ms = low.obj.tick_ms
                  /\ heap[k].open = low.obj.open
                  /\ heap[k].close = low.obj.close

\* C12, the derived objects: the result of next, prev, +, - and
\* with_timezone carries the lowercase interval of its receiver.
DerivedKeepInterval ==
    \A k \in DOMAIN heap :
        ~IsNew(k) =>
            /\ heap[k].interval = heap[made[k].self].interval
            /\ heap[k].interval \in DOMAIN IntervalMs

\* C12: the interval argument is case-insensitive and stored in lowercase:
\* every casing of every supported code (e.g. "1H" for "1h") constructs an
\* object with the lowercase code and the tick_ms, open and close of the
\* lowercase construction, and every object derived by next, prev, +, - or
\* with_timezone carries that lowercase interval.
C12_CaseInsensitive == AnyCasingAccepted /\ DerivedKeepInterval

\* C12 happens: an object built with "1H" stores "1h", and two objects were
\* derived from it in a chain.
C12_Witness ==
    /\ Len(heap) = 3
    /\ IsNew(1)
    /\ made[1].arg.interval = <<"1", "H">>
    /\ heap[1].interval = <<"1", "h">>
    /\ made[2].self = 1 /\ made[3].self = 2
    /\ heap[3].interval = <<"1", "h">>

\* What a comparison of two objects answers.
Answer(op, a, b) ==
    CASE op = "__eq__" -> __eq__(a, Instance(b))
      [] op = "__lt__" -> __lt__(a, Instance(b))
      [] op = "__le__" -> __le__(a, Instance(b))
      [] op = "__gt__" -> __gt__(a, Instance(b))
      [] op = "__ge__" -> __ge__(a, Instance(b))

ComparisonOps == {"__eq__", "__lt__", "__le__", "__gt__", "__ge__"}

\* Exactly one of three booleans is true.
ExactlyOne(p, q, r) ==
    \/ p /\ ~q /\ ~r
    \/ ~p /\ q /\ ~r
    \/ ~p /\ ~q /\ r

\* C13: the comparisons are a consistent total order over the objects,
\* whatever their intervals and timezones: each comparison of two objects
\* answers a boolean, and the answer of a call is that of every other call
\* on the same objects; exactly one of a < b, a == b, a > b holds; a <= b
\* iff (a < b or a == b); a >= b iff (a > b or a == b); a <= b and b <= a
\* imply a == b.
C13_TotalOrder ==
    /\ \A op \in ComparisonOps :
          Compared(op) => ret.val = Answer(op, Left, Right)
    /\ \A i \in DOMAIN heap, j \in DOMAIN heap :
          LET a == heap[i]
              b == heap[j]
          IN  /\ \A op \in ComparisonOps : Answer(op, a, b) \in BOOLEAN
              /\ ExactlyOne(Answer("__lt__", a, b), Answer("__eq__", a, b),
                            Answer("__gt__", a, b))
              /\ Answer("__le__", a, b) =
                     (Answer("__lt__", a, b) \/ Answer("__eq__", a, b))
              /\ Answer("__ge__", a, b) =
                     (Answer("__gt__", a, b) \/ Answer("__eq__", a, b))
              /\ (Answer("__le__", a, b) /\ Answer("__le__", b, a)) =>
                     Answer("__eq__", a, b)

\* C13 happens: a >= b was asked of two objects of different intervals,
\* timezones, raw timestamps and closes, and is true because they are
\* equal: a <= b and b <= a hold as well.
C13_Witness ==
    /\ Compared("__ge__")
    /\ ret.val = TRUE
    /\ Left.interval # Right.interval
    /\ Left.tzinfo # Right.tzinfo
    /\ Left.timestamp_ms # Right.timestamp_ms
    /\ Left.close < Right.close
    /\ Answer("__le__", Left, Right) /\ Answer("__le__", Right, Left)
    /\ Answer("__eq__", Left, Right)

\* C13 happens, strictly: a < b was asked and is true, and a > b, a == b
\* and a >= b are false.
C13_WitnessStrict ==
    /\ Compared("__lt__")
    /\ ret.val = TRUE
    /\ Left.interval # Right.interval
    /\ ~Answer("__gt__", Left, Right)
    /\ ~Answer("__eq__", Left, Right)
    /\ ~Answer("__ge__", Left, Right)

====
